---- MODULE Spec2Model ----
\* Model of pkg/resources/service.go of k8s-AppController: the managed Service
\* and the ExistingService resources, their Create / Delete / Status handlers and
\* the readiness aggregation serviceStatus, against a cluster reached through
\* the typed client (get, list, create, delete, capability query).
EXTENDS Integers, Sequences, FiniteSets, TLC

VARIABLES
    services,   \* the cluster's service objects (what Services().Get/Create/Delete act on)
    children,   \* the cluster's pods, jobs, replica sets, stateful sets and pet sets
    svc,        \* the managed Service instance the caller holds (fields of the struct)
    ex,         \* the ExistingService instance the caller holds
    nextUid,    \* the cluster's next assigned identity for a created object
    last,       \* the last handler invocation: its result and the transport calls it issued
    run,        \* history: the Create calls made on svc since its service was last absent
    inflight    \* invocations in progress, each between two of its transport calls

vars == <<services, children, svc, ex, nextUid, last, run, inflight>>

-----------------------------------------------------------------------------
\* Bounds of the model.

\* Most child objects the cluster holds.
MaxChildren == 2
\* The last identity the cluster assigns in one behaviour (the first is 1).
MaxUid == 2

-----------------------------------------------------------------------------
\* Values.

Names == {"foo", "bar"}

\* A selector term is one key/value entry of service.Spec.Selector, written as
\* the string fmt.Sprintf("%s=%s", k, v) builds from it.
GoodTerms == {"app=web", "tier=db"}
BadTerms == {"app=we b"}
Terms == GoodTerms \cup BadTerms

\* Error values. Nil is Go's nil error.
Nil == "nil"
NotFound == "NotFound"
AlreadyExists == "AlreadyExists"
TransportError == "TransportError"
ParseError == "ParseError"
ChildError == "ChildError"
Panic == "panic: nil pointer dereference"

\* The kinds serviceStatus lists, in the order it appends them to resources.
Kinds == <<"pods", "jobs", "replicasets", "statefulsets", "petsets">>
KindSet == {Kinds[i] : i \in 1..Len(Kinds)}
KindIdx(k) == CHOOSE i \in 1..Len(Kinds) : Kinds[i] = k

\* The nil *v1.Service.
NoObj == [name |-> "<nil>", selector |-> {}, uid |-> 0]

\* A leaf child's own Status result: (verdict, error).
ChildResults == {<<"ready", Nil>>, <<"not ready", Nil>>, <<"error", ChildError>>}

ChildLabels == {{"app=web"}, {"app=web", "tier=db"}}

\* The shapes of child objects considered: pods under either label set, the
\* other kinds under the first label.
Child ==
    [kind : {"pods"}, labels : ChildLabels, result : ChildResults]
    \cup [kind : KindSet \ {"pods"}, labels : {{"app=web"}}, result : ChildResults]

\* The cluster keeps one list per kind; a flat sequence ordered by kind holds
\* them, the order inside a kind being the order List returns the items in.
KindOrdered(s) == \A i \in 1..(Len(s) - 1) : KindIdx(s[i].kind) <= KindIdx(s[i + 1].kind)

RECURSIVE SeqsUpTo(_, _)
SeqsUpTo(S, n) ==
    IF n = 0 THEN {<<>>}
    ELSE LET shorter == SeqsUpTo(S, n - 1)
         IN  shorter \cup {Append(s, x) : s \in {t \in shorter : Len(t) = n - 1}, x \in S}

ChildLists == {s \in SeqsUpTo(Child, MaxChildren) : KindOrdered(s)}

\* The iteration orders `range service.Spec.Selector` can take over a map.
Orders(sel) ==
    {o \in [1..Cardinality(sel) -> sel] : \A i, j \in 1..Cardinality(sel) : o[i] = o[j] => i = j}

-----------------------------------------------------------------------------
\* The transport: the typed client's calls against the cluster.

Found(svcs, name) == \E o \in svcs : o.name = name
ObjOf(svcs, name) == CHOOSE o \in svcs : o.name = name

\* s.Get(name): the object, a not-found error, or a transport failure.
ClientGet(svcs, name, fault) ==
    IF fault THEN [obj |-> NoObj, err |-> TransportError]
    ELSE IF Found(svcs, name) THEN [obj |-> ObjOf(svcs, name), err |-> Nil]
    ELSE [obj |-> NoObj, err |-> NotFound]

\* List(options) of one kind: the indexes (in children) of the items whose
\* labels match the selector term, in the cluster's order.
RECURSIVE ListItems(_, _, _, _)
ListItems(kids, kind, term, i) ==
    IF i > Len(kids) THEN <<>>
    ELSE IF kids[i].kind = kind /\ term \in kids[i].labels
         THEN <<i>> \o ListItems(kids, kind, term, i + 1)
         ELSE ListItems(kids, kind, term, i + 1)

ClientList(kids, kind, term) == ListItems(kids, kind, term, 1)

-----------------------------------------------------------------------------
\* Children of a service.

\* A wrapped child's own Status (NewPod(...).Status and its siblings): a leaf,
\* answered from the observed state of the object the wrapper refers to.
childStatus(kids, ref) == [verdict |-> kids[ref].result[1], err |-> kids[ref].result[2]]

\* resourceListReady: the fold over the wrapped children. The first child whose
\* result is not ("ready", nil) ends the fold and its verdict and error are the
\* result; children after it are not asked.
RECURSIVE resourceListReady(_, _, _)
resourceListReady(resources, kids, i) ==
    IF i > Len(resources)
    THEN [verdict |-> "ready", err |-> Nil, evaluated |-> <<>>]
    ELSE LET r == childStatus(kids, resources[i].ref)
         IN  IF r.verdict # "ready" \/ r.err # Nil
             THEN [verdict |-> r.verdict, err |-> r.err, evaluated |-> <<resources[i].ref>>]
             ELSE LET rest == resourceListReady(resources, kids, i + 1)
                  IN  [rest EXCEPT !.evaluated = <<resources[i].ref>> \o @]

\* `for _, pod := range pods.Items { ... NewPod(&pod, ...) }`: the range
\* variable is one variable for the whole loop (the repository has no go.mod,
\* so no build gives it per-iteration scope), and &pod is its address. The
\* wrappers are used after the loop, when the variable holds the last item:
\* the i-th wrapper refers to the last item of the list.
RangeVarRef(items, i) == items[Len(items)]

\* The wrappers the loops at lines 70-78, 84-86 and 92-94 append for one list.
Wrap(kind, items) == [i \in 1..Len(items) |-> [kind |-> kind, ref |-> RangeVarRef(items, i)]]

\* labels.Parse(stringSelector).
ParseOK(term) == term \in GoodTerms

BoolStr(b) == IF b THEN "true" ELSE "false"

\* The two branches of the capability test exchanged.
Generation_swapped(flag) == IF flag THEN "petsets" ELSE "statefulsets"

\* apiClient.IsEnabled(v1beta1.SchemeGroupVersion) chooses the list of the pass.
Generation(flag) == IF flag THEN "statefulsets" ELSE "petsets"

\* One transport call as the handler saw it: what was called and what came back.
Call(op, kind, arg, out) == [op |-> op, kind |-> kind, arg |-> arg, out |-> out]

\* `if err != nil` after a get or list call: the n-th such call of the
\* evaluation returned an error iff it is the one that fails.
callFails(failAt, n) == failAt = n

\* `if status != "ready" || err != nil` (line 97): the pass returns.
passReturns(fold) == fold.verdict # "ready" \/ fold.err # Nil

\* The pass returning "error" as the function's other returns do.
passResult_error(fold) == [verdict |-> "error", err |-> fold.err]

\* `return status, err` (line 98).
passResult(fold) == [verdict |-> fold.verdict, err |-> fold.err]

\* A failed list reported as a child that is not ready yet.
listFailure_notReady(err) == [verdict |-> "not ready", err |-> Nil]

\* `return "error", err` after a list call (lines 59, 63, 67, 82, 90).
listFailure(err) == [verdict |-> "error", err |-> err]

\* The function ending without a ready verdict.
allTermsReady_notReady == [verdict |-> "not ready", err |-> Nil]

\* `return "ready", nil` (line 102).
allTermsReady == [verdict |-> "ready", err |-> Nil]

\* One iteration of the loop over service.Spec.Selector (lines 47-100), for the
\* i-th term in iteration order. flag is what IsEnabled reports in this pass;
\* failAt is the position, among the get and list calls of the evaluation, of
\* the call that fails (0: none). done says the iteration returned. A pass that
\* reaches the capability query leaves a record: the items its lists returned,
\* in discovery order, and the wrappers handed to the fold.
termPass(kids, apiClient, term, i, flag, failAt) ==
    LET first == 4 * i - 2
        out(n) == IF callFails(failAt, n) THEN TransportError ELSE "ok"
        lp == Call("List", "pods", term, out(first))
        lj == Call("List", "jobs", term, out(first + 1))
        lr == Call("List", "replicasets", term, out(first + 2))
        ie == Call("IsEnabled", "apps/v1beta1", "", BoolStr(flag))
        gen == Generation(flag)
        lg == Call("List", gen, term, out(first + 3))
        pods == ClientList(kids, "pods", term)
        jobs == ClientList(kids, "jobs", term)
        replicasets == ClientList(kids, "replicasets", term)
        sets == ClientList(kids, gen, term)
        resources == Wrap("pods", pods) \o Wrap("jobs", jobs)
                     \o Wrap("replicasets", replicasets) \o Wrap(gen, sets)
        fold == resourceListReady(resources, kids, 1)
        stop(v, e, cs, ps) ==
            [done |-> TRUE, verdict |-> v, err |-> e, calls |-> cs, passes |-> ps,
             evaluated |-> <<>>]
        shim(folded) ==
            [term |-> term, enabled |-> flag, folded |-> folded,
             listed |-> IF folded THEN pods \o jobs \o replicasets \o sets ELSE <<>>,
             resources |-> IF folded THEN resources ELSE <<>>]
    IN  IF ~ParseOK(term) THEN stop("error", ParseError, <<>>, <<>>)
        ELSE IF apiClient = "nil" THEN stop("panic", Panic, <<>>, <<>>)
        ELSE IF callFails(failAt, first) THEN stop(listFailure(TransportError).verdict, listFailure(TransportError).err, <<lp>>, <<>>)
        ELSE IF callFails(failAt, first + 1)
             THEN stop(listFailure(TransportError).verdict, listFailure(TransportError).err,
                       <<lp, lj>>, <<>>)
        ELSE IF callFails(failAt, first + 2)
             THEN stop(listFailure(TransportError).verdict, listFailure(TransportError).err,
                       <<lp, lj, lr>>, <<>>)
        ELSE IF callFails(failAt, first + 3)
             THEN stop(listFailure(TransportError).verdict, listFailure(TransportError).err,
                       <<lp, lj, lr, ie, lg>>, <<shim(FALSE)>>)
        ELSE [done |-> passReturns(fold),
              verdict |-> passResult(fold).verdict, err |-> passResult(fold).err,
              calls |-> <<lp, lj, lr, ie, lg>>, passes |-> <<shim(TRUE)>>,
              evaluated |-> fold.evaluated]

\* The loop over the selector terms, from the i-th term in iteration order.
RECURSIVE termLoop(_, _, _, _, _, _)
termLoop(kids, apiClient, order, flags, failAt, i) ==
    IF i > Len(order)
    THEN [verdict |-> allTermsReady.verdict, err |-> allTermsReady.err,
          calls |-> <<>>, passes |-> <<>>, evaluated |-> <<>>]
    ELSE LET p == termPass(kids, apiClient, order[i], i, flags[i], failAt)
         IN  IF p.done
             THEN [verdict |-> p.verdict, err |-> p.err, calls |-> p.calls,
                   passes |-> p.passes, evaluated |-> p.evaluated]
             ELSE [termLoop(kids, apiClient, order, flags, failAt, i + 1)
                      EXCEPT !.calls = p.calls \o @,
                             !.passes = p.passes \o @,
                             !.evaluated = p.evaluated \o @]

\* The test on the get's error inverted.
getFailed_inverted(err) == err = Nil

\* `if err != nil` after s.Get(name) (line 42).
getFailed(err) == err # Nil

\* serviceStatus(s, name, apiClient). order is the iteration order the map
\* range takes, flags what IsEnabled reports in each pass, failAt the failing
\* transport call (0: none; 1: the get).
serviceStatus(svcs, kids, name, apiClient, order, flags, failAt) ==
    LET got == ClientGet(svcs, name, callFails(failAt, 1))
        get == Call("Get", "services", name, IF got.err = Nil THEN "ok" ELSE got.err)
    IN  IF getFailed(got.err)
        THEN [verdict |-> "error", err |-> got.err, calls |-> <<get>>, passes |-> <<>>,
              evaluated |-> <<>>]
        ELSE LET loop == termLoop(kids, apiClient, order, flags, failAt, 1)
             IN  [loop EXCEPT !.calls = <<get>> \o @]

\* What the caller of a Status evaluation can vary: the map iteration order of
\* the selector the get returns, the capability reports, the failing call.
SelectorOf(svcs, name) == IF Found(svcs, name) THEN ObjOf(svcs, name).selector ELSE {}
FailPoints(sel) == 0..(1 + 4 * Cardinality(sel))
Flags(sel) == [1..Cardinality(sel) -> BOOLEAN]

-----------------------------------------------------------------------------
\* The transport's create and delete of a service.

\* A create that replaces an object of the same name instead of refusing.
ClientCreate_overwrites(svcs, obj, uid, fault) ==
    IF fault THEN [obj |-> NoObj, err |-> TransportError, services |-> svcs]
    ELSE LET made == [obj EXCEPT !.uid = uid]
         IN  [obj |-> made, err |-> Nil,
              services |-> {o \in svcs : o.name # obj.name} \cup {made}]

\* s.Client.Create(obj): the cluster refuses a second object of the same name;
\* the object it returns carries the identity the cluster assigned.
ClientCreate(svcs, obj, uid, fault) ==
    IF fault THEN [obj |-> NoObj, err |-> TransportError, services |-> svcs]
    ELSE IF Found(svcs, obj.name)
         THEN [obj |-> NoObj, err |-> AlreadyExists, services |-> svcs]
         ELSE LET made == [obj EXCEPT !.uid = uid]
              IN  [obj |-> made, err |-> Nil, services |-> svcs \cup {made}]

\* s.Client.Delete(name, nil).
ClientDelete(svcs, name, fault) ==
    IF fault THEN [err |-> TransportError, services |-> svcs]
    ELSE IF Found(svcs, name)
         THEN [err |-> Nil, services |-> svcs \ {ObjOf(svcs, name)}]
         ELSE [err |-> NotFound, services |-> svcs]

-----------------------------------------------------------------------------
\* The resources.

\* A definition's object: no cluster-assigned identity yet.
Definition(name, sel) == [name |-> name, selector |-> sel, uid |-> 0]

serviceKey(name) == <<"service", name>>

\* NewService(service, client, apiClient, meta): the struct holds the pointer
\* to the definition's object and the API client.
NewService(service) == [Service |-> service, APIClient |-> "client"]

\* NewExistingService(name, client): the APIClient field is left unset (nil).
NewExistingService(name) == [Name |-> name, APIClient |-> "nil"]

\* checkExistence(r): the shared existence check is handed the Resource
\* itself, whose contract offers Status as its one observation of the
\* cluster; the check is the error of that evaluation, which begins with the
\* fetch of the object by name.
checkExistence(status) == status.err

\* createExistingResource(r): a no-op success.
createExistingResource(s) == Nil

\* Service.Create has a value receiver: s is a copy of the caller's struct,
\* and the assignment to s.Service at line 116 changes the copy alone.
ReceiverAfterCreate(s, local) == s

\* Service.Create: the existence check, then the provisioning call whenever
\* the check returned an error of any kind. st is the result of the Status
\* evaluation the check makes on s.
ServiceCreate(svcs, s, uid, st, createFault) ==
    LET err == checkExistence(st)
        made == ClientCreate(svcs, s.Service, uid, createFault)
        call == Call("Create", "services", s.Service.name,
                     IF made.err = Nil THEN "ok" ELSE made.err)
    IN  IF err = Panic
        THEN [err |-> Panic, calls |-> st.calls, services |-> svcs, local |-> s.Service,
              returned |-> NoObj]
        ELSE IF err # Nil
        THEN [err |-> made.err, calls |-> Append(st.calls, call), services |-> made.services,
              local |-> made.obj, returned |-> made.obj]
        ELSE [err |-> Nil, calls |-> st.calls, services |-> svcs, local |-> s.Service,
              returned |-> NoObj]

\* Delete treating an object that is already gone as deleted.
deleteResult_absentIsSuccess(err) == IF err = NotFound THEN Nil ELSE err

\* `return s.Client.Delete(s.Service.Name, nil)` (line 123) and
\* `return s.Client.Delete(s.Name, nil)` (line 172): the transport's error is
\* the handler's.
deleteResult(err) == err

\* The record of one handler invocation.
NoCall == [op |-> "none", variant |-> "none", name |-> "", verdict |-> "", err |-> Nil,
           calls |-> <<>>, passes |-> <<>>, evaluated |-> <<>>, order |-> <<>>,
           returned |-> NoObj, pre |-> {}, preRef |-> NoObj]

\* History of Service.Create: a run starts when the service is absent; it
\* counts the Create calls made since (n, up to two), keeps the object the first
\* successful one produced, and whether every later one whose fetch of the
\* service did not fail returned nil.
NewRun(svcs, name) ==
    [active |-> ~Found(svcs, name), n |-> 0, first |-> NoObj, laterOk |-> TRUE]

RunAfterCreate(h, r) ==
    [active |-> h.active,
     n |-> IF h.n < 2 THEN h.n + 1 ELSE h.n,
     first |-> IF h.first = NoObj /\ r.err = Nil THEN r.returned ELSE h.first,
     laterOk |-> h.laterOk /\ (h.first # NoObj /\ r.calls[1].out # TransportError => r.err = Nil)]

\* A delete that removes the service starts a new run.
RunAfterDelete(h, before, after, name) ==
    IF Found(before, name) /\ ~Found(after, name) THEN NewRun(after, name) ELSE h

\* No invocation in progress: the handlers below run from call to return.
NoInflight == [start |-> {}, proc |-> <<>>]

-----------------------------------------------------------------------------
\* The handlers.

\* func (s Service) Create() error
Service_Create ==
    /\ nextUid <= MaxUid \/ Found(services, svc.Service.name)
    /\ \E order \in Orders(SelectorOf(services, svc.Service.name)),
          flags \in Flags(SelectorOf(services, svc.Service.name)),
          failAt \in FailPoints(SelectorOf(services, svc.Service.name)),
          createFault \in BOOLEAN :
          \E st \in {serviceStatus(services, children, svc.Service.name, svc.APIClient,
                                   order, flags, failAt)} :
          \E r \in {ServiceCreate(services, svc, nextUid, st, createFault)} :
              /\ services' = r.services
              /\ svc' = ReceiverAfterCreate(svc, r.local)
              /\ nextUid' = IF r.returned # NoObj THEN nextUid + 1 ELSE nextUid
              /\ last' = [NoCall EXCEPT !.op = "Create", !.variant = "Service",
                                        !.name = svc.Service.name, !.err = r.err,
                                        !.calls = r.calls, !.returned = r.returned,
                                        !.pre = services, !.preRef = svc.Service]
              /\ run' = RunAfterCreate(run, r)
    /\ UNCHANGED <<children, ex, inflight>>

\* ExistingService.Create going through the managed variant's protocol: check,
\* then provision under the name.
ExistingService_Create_provisions ==
    /\ nextUid <= MaxUid \/ Found(services, ex.Name)
    /\ \E order \in Orders(SelectorOf(services, ex.Name)),
          flags \in Flags(SelectorOf(services, ex.Name)),
          failAt \in FailPoints(SelectorOf(services, ex.Name)) :
          \E st \in {serviceStatus(services, children, ex.Name, ex.APIClient,
                                   order, flags, failAt)} :
          \E r \in {ServiceCreate(services,
                                  [Service |-> Definition(ex.Name, {}), APIClient |-> ex.APIClient],
                                  nextUid, st, FALSE)} :
              /\ services' = r.services
              /\ nextUid' = IF r.returned # NoObj THEN nextUid + 1 ELSE nextUid
              /\ last' = [NoCall EXCEPT !.op = "Create", !.variant = "ExistingService",
                                        !.name = ex.Name, !.err = r.err, !.calls = r.calls,
                                        !.pre = services, !.preRef = svc.Service]
    /\ UNCHANGED <<children, svc, ex, run, inflight>>

\* func (s ExistingService) Create() error
ExistingService_Create ==
    /\ last' = [NoCall EXCEPT !.op = "Create", !.variant = "ExistingService",
                              !.name = ex.Name, !.err = createExistingResource(ex),
                              !.pre = services, !.preRef = svc.Service]
    /\ UNCHANGED <<services, children, svc, ex, nextUid, run, inflight>>

\* func (s Service) Delete() error
Service_Delete ==
    /\ \E fault \in BOOLEAN :
          \E r \in {ClientDelete(services, svc.Service.name, fault)} :
              /\ services' = r.services
              /\ last' = [NoCall EXCEPT !.op = "Delete", !.variant = "Service",
                                        !.name = svc.Service.name,
                                        !.err = deleteResult(r.err),
                                        !.calls = <<Call("Delete", "services", svc.Service.name,
                                                        IF r.err = Nil THEN "ok" ELSE r.err)>>,
                                        !.pre = services, !.preRef = svc.Service]
              /\ run' = RunAfterDelete(run, services, r.services, svc.Service.name)
    /\ UNCHANGED <<children, svc, ex, nextUid, inflight>>

\* func (s ExistingService) Delete() error
ExistingService_Delete ==
    /\ \E fault \in BOOLEAN :
          \E r \in {ClientDelete(services, ex.Name, fault)} :
              /\ services' = r.services
              /\ last' = [NoCall EXCEPT !.op = "Delete", !.variant = "ExistingService",
                                        !.name = ex.Name, !.err = deleteResult(r.err),
                                        !.calls = <<Call("Delete", "services", ex.Name,
                                                        IF r.err = Nil THEN "ok" ELSE r.err)>>,
                                        !.pre = services, !.preRef = svc.Service]
              /\ run' = RunAfterDelete(run, services, r.services, svc.Service.name)
    /\ UNCHANGED <<children, svc, ex, nextUid, inflight>>

\* A Status evaluation by either variant. One evaluation per behaviour: an
\* evaluation leaves the cluster as it found it, so a second one would start
\* where the first did.
Evaluate(variant, name, apiClient) ==
    /\ last = NoCall
    /\ \E order \in Orders(SelectorOf(services, name)),
          flags \in Flags(SelectorOf(services, name)),
          failAt \in FailPoints(SelectorOf(services, name)) :
          \E r \in {serviceStatus(services, children, name, apiClient, order, flags, failAt)} :
              last' = [NoCall EXCEPT !.op = "Status", !.variant = variant, !.name = name,
                                     !.verdict = r.verdict, !.err = r.err,
                                     !.calls = r.calls, !.passes = r.passes,
                                     !.evaluated = r.evaluated, !.order = order,
                                     !.pre = services, !.preRef = svc.Service]
    /\ UNCHANGED <<services, children, svc, ex, nextUid, run, inflight>>

\* Service.Status keeping the object the get returned in the caller's struct.
Service_Status_refreshes ==
    /\ last = NoCall
    /\ \E order \in Orders(SelectorOf(services, svc.Service.name)),
          flags \in Flags(SelectorOf(services, svc.Service.name)),
          failAt \in FailPoints(SelectorOf(services, svc.Service.name)) :
          \E r \in {serviceStatus(services, children, svc.Service.name, svc.APIClient,
                                  order, flags, failAt)} :
              /\ last' = [NoCall EXCEPT !.op = "Status", !.variant = "Service",
                                        !.name = svc.Service.name,
                                        !.verdict = r.verdict, !.err = r.err,
                                        !.calls = r.calls, !.passes = r.passes,
                                        !.evaluated = r.evaluated, !.order = order,
                                        !.pre = services, !.preRef = svc.Service]
              /\ svc' = IF Found(services, svc.Service.name) /\ r.calls[1].out = "ok"
                        THEN [svc EXCEPT !.Service = ObjOf(services, svc.Service.name)]
                        ELSE svc
    /\ UNCHANGED <<services, children, ex, nextUid, run, inflight>>

\* func (s Service) Status(meta map[string]string) (string, error)
Service_Status == Evaluate("Service", svc.Service.name, svc.APIClient)

\* func (s ExistingService) Status(meta map[string]string) (string, error)
ExistingService_Status == Evaluate("ExistingService", ex.Name, ex.APIClient)

-----------------------------------------------------------------------------
\* Specifications.

\* The selectors considered: at most two entries, of which at most one does
\* not parse.
Selectors == {{}, {"app=web"}, {"tier=db"}, {"app=we b"}, {"app=web", "tier=db"},
              {"app=web", "app=we b"}}

\* What the lifecycle handlers are run against: a definition selecting nothing,
\* one label, or one label that does not parse; a cluster with no child, or one
\* pod under the label.
LifecycleSelectors == {{}, {"app=web"}, {"app=we b"}}

LifecycleChildLists ==
    {<<>>} \cup {<<[kind |-> "pods", labels |-> {"app=web"}, result |-> r]>> : r \in ChildResults}

\* The state after Service.New(def, c) and Service.NewExisting(name, c), with
\* the cluster holding no service or one created before.
Init ==
    /\ \E sel \in LifecycleSelectors :
          /\ svc = NewService(Definition("foo", sel))
          /\ services \in {{}} \cup {{[name |-> n, selector |-> sel, uid |-> 1]} : n \in Names}
    /\ \E n \in Names : ex = NewExistingService(n)
    /\ children \in LifecycleChildLists
    /\ nextUid = 2
    /\ last = NoCall
    /\ run = NewRun(services, "foo")
    /\ inflight = NoInflight

Next ==
    \/ Service_Create
    \/ ExistingService_Create
    \/ Service_Delete
    \/ ExistingService_Delete

Spec == Init /\ [][Next]_vars

\* The state a Status evaluation starts from: both variants name the same
\* service, which the cluster holds or not, among children of every kind.
InitStatus ==
    /\ \E sel \in Selectors :
          /\ svc = NewService(Definition("foo", sel))
          /\ services \in {{}, {[name |-> "foo", selector |-> sel, uid |-> 1]}}
    /\ ex = NewExistingService("foo")
    /\ children \in ChildLists
    /\ nextUid = 2
    /\ last = NoCall
    /\ run = NewRun(services, "foo")
    /\ inflight = NoInflight

NextStatus ==
    \/ Service_Status
    \/ ExistingService_Status

SpecStatus == InitStatus /\ [][NextStatus]_vars

-----------------------------------------------------------------------------
\* Claims about Create (specification Spec).

IsOp(op, variant) == last.op = op /\ last.variant = variant

\* The last invocation issued a transport call of this operation.
Issued(op) == \E i \in 1..Len(last.calls) : last.calls[i].op = op

\* C1: when a service with the resource's name already exists and the fetch of
\* it finds it, Create on the managed Service returns nil, issues no transport
\* create and leaves the cluster's objects unchanged - whatever the children
\* are and whatever the child list calls return.
C1_CreateOnExistingIsNoOp ==
    (IsOp("Create", "Service") /\ Found(last.pre, last.name) /\ last.calls[1].out = "ok")
        => (last.err = Nil /\ ~Issued("Create") /\ services = last.pre)

\* C2: after two or more Create calls in a row on the managed Service, begun
\* with the service absent, the cluster holds exactly one object of that name,
\* the one the first successful call produced, and every call after that one
\* returned no error.
C2_CreateIdempotent ==
    (run.active /\ run.n >= 2 /\ run.first # NoObj)
        => /\ {o \in services : o.name = svc.Service.name} = {run.first}
           /\ run.laterOk

\* C3: a transport error other than not-found during the existence check makes
\* Create return that error without the provisioning call; only a not-found
\* outcome of the check leads to provisioning.
C3_CheckFailurePropagates ==
    IsOp("Create", "Service")
        => /\ (\E i \in 1..Len(last.calls) :
                  last.calls[i].op \in {"Get", "List"} /\ last.calls[i].out = TransportError)
              => (last.err = TransportError /\ ~Issued("Create"))
           /\ Issued("Create") => last.calls[1].out = NotFound

\* C4: after a Create that provisions the object, the instance the caller
\* called it on refers to the object the cluster returned; when provisioning
\* fails or the object existed, its reference is what it was.
C4_ReferenceIsClusterObject ==
    IsOp("Create", "Service")
        => IF last.returned # NoObj
           THEN svc.Service = last.returned
           ELSE svc.Service = last.preRef

-----------------------------------------------------------------------------
\* Claims about Status (specification SpecStatus).

Evaluated == last.op = "Status"

Ready(k) == children[k].result = <<"ready", Nil>>

\* The items the lists of the first n passes returned, in discovery order.
RECURSIVE Matched(_)
Matched(n) == IF n = 0 THEN <<>> ELSE Matched(n - 1) \o last.passes[n].listed

\* The position in seq of its first item that is not ready.
FirstNotReady(seq) == CHOOSE j \in 1..Len(seq) : ~Ready(seq[j]) /\ \A i \in 1..(j - 1) : Ready(seq[i])

\* C6: when the children a selector term matches include one that is not
\* ready, the verdict is not ready (never ready), no child that comes after
\* the first one not ready is asked, nothing is asked after a child answered
\* not ready, and no later term is listed.
C6_FirstNotReadyStops ==
    Evaluated =>
        \A n \in 1..Len(last.passes) :
            (last.passes[n].folded /\ \E j \in 1..Len(last.passes[n].listed) :
                                         ~Ready(last.passes[n].listed[j]))
                => /\ ~(last.verdict = "ready" /\ last.err = Nil)
                   /\ \A i \in 1..Len(last.evaluated) :
                          \E m \in 1..FirstNotReady(Matched(n)) : Matched(n)[m] = last.evaluated[i]
                   /\ \A i \in 1..(Len(last.evaluated) - 1) : Ready(last.evaluated[i])
                   /\ Len(last.passes) = n

C8_EmptySelectorReady ==
    (/\ Evaluated
     /\ Found(services, last.name)
     /\ SelectorOf(services, last.name) = {}
     /\ last.calls[1].out = "ok")
        => /\ last.verdict = "ready"
           /\ last.err = Nil
           /\ last.calls = <<Call("Get", "services", last.name, "ok")>>

\* C8 witness: such an evaluation, in a cluster that has children.
C8_Witness ==
    /\ Evaluated
    /\ Found(services, last.name)
    /\ SelectorOf(services, last.name) = {}
    /\ last.calls[1].out = "ok"
    /\ Len(children) > 0

\* Every term of the selector had its lists issued, all succeeding and all
\* empty.
AllTermsListedEmpty ==
    /\ SelectorOf(services, last.name) # {}
    /\ \A t \in SelectorOf(services, last.name) :
           \E n \in 1..Len(last.passes) :
               /\ last.passes[n].term = t
               /\ last.passes[n].folded
               /\ last.passes[n].listed = <<>>

\* C9: the service exists and every selector term's lists (pods, jobs, replica
\* sets, and stateful sets or pet sets as the flag says) succeed and match
\* nothing: Status is ready with no error, whatever the flag.
C9_NoChildrenReady ==
    (Evaluated /\ Found(services, last.name) /\ AllTermsListedEmpty)
        => (last.verdict = "ready" /\ last.err = Nil)

\* C9 witness: two terms, nothing matched, one pass under each value of the
\* flag, while the cluster holds a child of the generation not listed.
C9_Witness ==
    /\ Evaluated
    /\ Found(services, last.name)
    /\ AllTermsListedEmpty
    /\ Len(last.passes) = 2
    /\ last.passes[1].enabled
    /\ ~last.passes[2].enabled
    /\ Len(children) > 0

\* The pass a call belongs to: the number of pod lists issued up to it.
PassOf(j) == Cardinality({i \in 1..j : last.calls[i].op = "List" /\ last.calls[i].kind = "pods"})

GenerationLists(n) ==
    {j \in 1..Len(last.calls) :
        /\ PassOf(j) = n
        /\ last.calls[j].op = "List"
        /\ last.calls[j].kind \in {"statefulsets", "petsets"}}

\* C10: a pass that reaches the capability query issues exactly one of the
\* two generation lists - stateful sets iff the flag is reported enabled, pet
\* sets otherwise - and the wrappers of that concept are of the listed
\* generation and refer to objects of it.
C10_OneGenerationPerPass ==
    Evaluated =>
        /\ \A j \in 1..Len(last.calls) :
               last.calls[j].op = "IsEnabled"
                   => \E g \in GenerationLists(PassOf(j)) :
                          /\ GenerationLists(PassOf(j)) = {g}
                          /\ g > j
                          /\ last.calls[g].kind = "statefulsets" <=> last.calls[j].out = "true"
                          /\ last.calls[g].kind = "petsets" <=> last.calls[j].out = "false"
        /\ \A j \in 1..Len(last.calls) :
               (last.calls[j].op = "List" /\ last.calls[j].kind \in {"statefulsets", "petsets"})
                   => \E i \in 1..(j - 1) : last.calls[i].op = "IsEnabled" /\ PassOf(i) = PassOf(j)
        /\ \A n \in 1..Len(last.passes) :
               \A k \in 1..Len(last.passes[n].resources) :
                   LET r == last.passes[n].resources[k]
                   IN  r.kind \in {"statefulsets", "petsets"}
                           => /\ r.kind = "statefulsets" <=> last.passes[n].enabled
                              /\ children[r.ref].kind = r.kind

\* C10 witness: the flag is reported enabled, a stateful set is wrapped, and
\* the cluster also holds a pet set under the same label.
C10_Witness ==
    /\ Evaluated
    /\ \E n \in 1..Len(last.passes) :
           /\ last.passes[n].enabled
           /\ \E k \in 1..Len(last.passes[n].resources) :
                  last.passes[n].resources[k].kind = "statefulsets"
           /\ \E c \in 1..Len(children) :
                  /\ children[c].kind = "petsets"
                  /\ last.passes[n].term \in children[c].labels

IsEnabledCalls == {j \in 1..Len(last.calls) : last.calls[j].op = "IsEnabled"}

\* C11: one Status evaluation issues the capability query at most once, and
\* all its selector terms take the same generation path, whatever the flag
\* does while the evaluation runs.
C11_FlagQueriedOnce ==
    Evaluated =>
        /\ Cardinality(IsEnabledCalls) <= 1
        /\ \A m, n \in 1..Len(last.passes) : last.passes[m].enabled = last.passes[n].enabled

\* The lists of the evaluation that returned an error.
FailedLists ==
    {j \in 1..Len(last.calls) : last.calls[j].op = "List" /\ last.calls[j].out # "ok"}

\* C12: in a Status evaluation, when the get of the service fails (the service
\* never created included) the result is "error" with the get's error and the
\* get is the only call; when a list fails the result is "error" with the
\* list's error, the failed list is the last call, and the pass it belongs to
\* hands no child to the fold.
C12_TransportFailureStops ==
    Evaluated =>
        /\ last.calls[1].out # "ok"
               => /\ last.verdict = "error"
                  /\ last.err = last.calls[1].out
                  /\ Len(last.calls) = 1
                  /\ last.evaluated = <<>>
        /\ \A j \in FailedLists :
               /\ last.verdict = "error"
               /\ last.err = last.calls[j].out
               /\ j = Len(last.calls)
               /\ \A n \in 1..Len(last.passes) : last.passes[n].folded => n < PassOf(j)
               /\ Len(last.evaluated) =
                      Cardinality({<<n, k>> \in (1..Len(last.passes)) \X (1..MaxChildren) :
                                      last.passes[n].folded /\ k <= Len(last.passes[n].resources)})

\* C12 witness: the second term's generation list fails after the first
\* term's children were all found ready, in a cluster where the second term
\* matches a child.
C12_Witness ==
    /\ Evaluated
    /\ last.variant = "Service"
    /\ Len(last.passes) = 2
    /\ last.passes[1].folded
    /\ Len(last.passes[1].listed) > 0
    /\ ~last.passes[2].folded
    /\ FailedLists # {}
    /\ \E c \in 1..Len(children) : last.passes[2].term \in children[c].labels

-----------------------------------------------------------------------------
\* Claims about Delete (specification Spec).

\* C13: Delete on either variant issues one transport call, the delete of the
\* resource's name, and returns what that call returned: nil when the object
\* was removed, the transport's error otherwise - an object that is not there
\* is an error of the transport's, not a success.
C13_DeleteForwards ==
    last.op = "Delete" =>
        /\ last.name = (IF last.variant = "Service" THEN svc.Service.name ELSE ex.Name)
        /\ Len(last.calls) = 1
        /\ last.calls[1].op = "Delete"
        /\ last.calls[1].arg = last.name
        /\ last.err = (IF last.calls[1].out = "ok" THEN Nil ELSE last.calls[1].out)
        /\ ~Found(last.pre, last.name) => (last.err # Nil /\ services = last.pre)
        /\ last.err = Nil => services = last.pre \ {ObjOf(last.pre, last.name)}

\* C13 witness: the ExistingService deleted a service that was not there and
\* got the transport's not-found error.
C13_Witness ==
    /\ IsOp("Delete", "ExistingService")
    /\ ~Found(last.pre, last.name)
    /\ last.err = NotFound

-----------------------------------------------------------------------------
\* Further claims about Status (specification SpecStatus).

\* The kinds a pass lists, in the order it lists them.
PassKinds(n) == <<"pods", "jobs", "replicasets", Generation(last.passes[n].enabled)>>

\* The items of one kind among the items a pass listed, in list order.
ListedOfKind(n, kind) == SelectSeq(last.passes[n].listed, LAMBDA c : children[c].kind = kind)

\* C16: in every pass that reaches the fold, the list handed to the fold has
\* one entry per listed object, in discovery order (pods, jobs, replica sets,
\* then stateful or pet sets), and its k-th entry refers to the k-th listed
\* object.
C16_OneWrapperPerObject ==
    Evaluated =>
        \A n \in 1..Len(last.passes) :
            last.passes[n].folded
                => /\ Len(last.passes[n].resources) = Len(last.passes[n].listed)
                   /\ last.passes[n].listed =
                          ListedOfKind(n, PassKinds(n)[1]) \o ListedOfKind(n, PassKinds(n)[2])
                          \o ListedOfKind(n, PassKinds(n)[3]) \o ListedOfKind(n, PassKinds(n)[4])
                   /\ \A k \in 1..Len(last.passes[n].listed) :
                          /\ last.passes[n].resources[k].ref = last.passes[n].listed[k]
                          /\ last.passes[n].resources[k].kind = children[last.passes[n].listed[k]].kind

\* The children one selector term matches on its own, among the kinds a pass
\* under this report of the flag lists.
MatchedByTerm(t, flag) ==
    {c \in 1..Len(children) :
        /\ t \in children[c].labels
        /\ children[c].kind \in {"pods", "jobs", "replicasets", Generation(flag)}}

\* C17: selector terms are separate queries. A pass lists what its own term
\* matches, whether the other terms match it or not; and a ready verdict means
\* every term had its pass and everything that term matches is ready.
C17_TermsIndependent ==
    (Evaluated /\ last.variant = "Service") =>
        /\ \A n \in 1..Len(last.passes) :
               last.passes[n].folded
                   => {last.passes[n].listed[k] : k \in 1..Len(last.passes[n].listed)}
                          = MatchedByTerm(last.passes[n].term, last.passes[n].enabled)
        /\ (last.verdict = "ready" /\ last.err = Nil)
               => \A t \in SelectorOf(services, last.name) :
                      \E n \in 1..Len(last.passes) :
                          /\ last.passes[n].term = t
                          /\ last.passes[n].folded
                          /\ \A c \in MatchedByTerm(t, last.passes[n].enabled) : Ready(c)

\* The most transport calls an evaluation of this selector can make: the get,
\* and per term three lists, the capability query and one more list.
MaxCalls(sel) == 1 + 5 * Cardinality(sel)

\* C18: a Status evaluation returns a verdict after a bounded number of
\* transport calls, and the verdict is ready only if every child its lists
\* returned - the children being leaves, the whole closure - is ready.
C18_TerminatesClosureReady ==
    Evaluated =>
        /\ last.verdict \in {"ready", "not ready", "error"}
        /\ Len(last.calls) <= MaxCalls(SelectorOf(services, last.name))
        /\ (last.verdict = "ready" /\ last.err = Nil)
               => \A k \in 1..Len(Matched(Len(last.passes))) :
                      Ready(Matched(Len(last.passes))[k])

\* C19: what Status returns on the ExistingService, and the calls it made, are
\* what Status on the managed Service of the same name returns and makes in
\* the same cluster, for the same iteration order, under some reports of the
\* flag and some outcome of the calls.
C19_StatusVariantIndependent ==
    (Evaluated /\ last.variant = "ExistingService") =>
        \E flags \in Flags(SelectorOf(services, last.name)),
           failAt \in FailPoints(SelectorOf(services, last.name)) :
            \E r \in {serviceStatus(services, children, svc.Service.name, svc.APIClient,
                                    last.order, flags, failAt)} :
                /\ svc.Service.name = last.name
                /\ r.verdict = last.verdict
                /\ r.err = last.err
                /\ r.calls = last.calls

\* C20: a step that is a Status evaluation issues get, list and capability
\* calls only, and leaves the cluster's services and children and both
\* resources' fields as they were.
C20_StatusReadOnly ==
    [][last'.op = "Status"
          => /\ \A j \in 1..Len(last'.calls) : last'.calls[j].op \in {"Get", "List", "IsEnabled"}
             /\ services' = services
             /\ children' = children
             /\ svc' = svc
             /\ ex' = ex]_vars

\* C20 witness: the managed Service evaluated an existing service whose child
\* reported an error.
C20_Witness ==
    /\ Evaluated
    /\ last.variant = "Service"
    /\ Found(services, last.name)
    /\ last.calls[1].out = "ok"
    /\ last.err = ChildError
    /\ svc.Service.uid = 0

-----------------------------------------------------------------------------
\* Concurrent invocations. Two goroutines each run one handler; a step is one
\* transport round-trip of one of them, so the round-trips of the two
\* interleave in every order. Every call returns what the cluster holds when
\* it is made (no transport fault here). The lists and capability reports of
\* an evaluation do not depend on the services, which are all that the
\* handlers write, so their outcomes are fixed when the get is made and then
\* issued one step at a time.

Procs == {1, 2}
Ops == {"Create", "Delete", "Status"}

NoStatus == [verdict |-> "", err |-> Nil, calls |-> <<>>, passes |-> <<>>, evaluated |-> <<>>]

\* An invocation that has not made its first call. s is the handler's
\* receiver, a copy of the instance inst it was called on.
Invocation(inst, variant, s, name, op) ==
    [inst |-> inst, variant |-> variant, s |-> s, name |-> name, op |-> op,
     pc |-> "start", st |-> NoStatus, k |-> 0, verdict |-> "", err |-> Nil, issued |-> <<>>]

Returned(q, verdict, err) == [q EXCEPT !.pc = "done", !.verdict = verdict, !.err = err]

\* The invocation after the k-th call of its evaluation came back: after the
\* last one Status returns (lines 127-129, 167-169) and Create goes on to
\* `if err := checkExistence(s); err != nil` (line 114).
AfterCall(q, k) ==
    LET r == [q EXCEPT !.k = k, !.issued = Append(@, q.st.calls[k])]
    IN  IF k < Len(q.st.calls) THEN [r EXCEPT !.pc = "calls"]
        ELSE IF q.op = "Status" THEN Returned(r, q.st.verdict, q.st.err)
        ELSE IF checkExistence(q.st) = Nil \/ checkExistence(q.st) = Panic
             THEN Returned(r, "", checkExistence(q.st))
             ELSE [r EXCEPT !.pc = "create"]

\* s.Get(name) at line 40, reached from Status or from Create's check.
Fetch(p) ==
    /\ inflight.proc[p].pc = "start"
    /\ \/ inflight.proc[p].op = "Status"
       \/ inflight.proc[p].op = "Create" /\ inflight.proc[p].variant = "Service"
    /\ \E order \in Orders(SelectorOf(services, inflight.proc[p].name)),
          flags \in Flags(SelectorOf(services, inflight.proc[p].name)) :
          \E st \in {serviceStatus(services, children, inflight.proc[p].name,
                                   inflight.proc[p].s.APIClient, order, flags, 0)} :
              inflight' = [inflight EXCEPT
                              !.proc[p] = AfterCall([inflight.proc[p] EXCEPT !.st = st], 1)]
    /\ UNCHANGED <<services, children, svc, ex, nextUid, last, run>>

\* The next list or capability call of the evaluation (lines 57-91).
NextCall(p) ==
    /\ inflight.proc[p].pc = "calls"
    /\ inflight' = [inflight EXCEPT
                       !.proc[p] = AfterCall(inflight.proc[p], inflight.proc[p].k + 1)]
    /\ UNCHANGED <<services, children, svc, ex, nextUid, last, run>>

\* s.Client.Create(s.Service) at line 115.
Provision(p) ==
    /\ inflight.proc[p].pc = "create"
    /\ \E r \in {ClientCreate(services, inflight.proc[p].s.Service, nextUid, FALSE)} :
          /\ services' = r.services
          /\ nextUid' = IF r.err = Nil THEN nextUid + 1 ELSE nextUid
          /\ inflight' = [inflight EXCEPT
                             !.proc[p] = Returned([inflight.proc[p] EXCEPT
                                                      !.issued = Append(@,
                                                          Call("Create", "services",
                                                               inflight.proc[p].name,
                                                               IF r.err = Nil THEN "ok"
                                                                              ELSE r.err))],
                                                  "", r.err)]
    /\ UNCHANGED <<children, svc, ex, last, run>>

\* ExistingService.Create (lines 163-165): no transport call.
ExistingCreate(p) ==
    /\ inflight.proc[p].pc = "start"
    /\ inflight.proc[p].op = "Create"
    /\ inflight.proc[p].variant = "ExistingService"
    /\ inflight' = [inflight EXCEPT
                       !.proc[p] = Returned(inflight.proc[p], "",
                                            createExistingResource(inflight.proc[p].s))]
    /\ UNCHANGED <<services, children, svc, ex, nextUid, last, run>>

\* s.Client.Delete(name, nil) at lines 123 and 172.
Remove(p) ==
    /\ inflight.proc[p].pc = "start"
    /\ inflight.proc[p].op = "Delete"
    /\ \E r \in {ClientDelete(services, inflight.proc[p].name, FALSE)} :
          /\ services' = r.services
          /\ inflight' = [inflight EXCEPT
                             !.proc[p] = Returned([inflight.proc[p] EXCEPT
                                                      !.issued = Append(@,
                                                          Call("Delete", "services",
                                                               inflight.proc[p].name,
                                                               IF r.err = Nil THEN "ok"
                                                                              ELSE r.err))],
                                                  "", deleteResult(r.err))]
    /\ UNCHANGED <<children, svc, ex, nextUid, last, run>>

\* The selectors of the services the goroutines work on.
ConcSelectors == {{}, {"app=web"}}

\* The first goroutine calls a handler of svc. The second calls a handler of
\* the same instance, of a second Service built by New from a definition
\* with the same selector, or of the ExistingService.
InitConc ==
    /\ \E sel \in ConcSelectors :
          /\ svc = NewService(Definition("foo", sel))
          /\ services \in {{}, {[name |-> "foo", selector |-> sel, uid |-> 1]}}
          /\ \E n \in Names : ex = NewExistingService(n)
          /\ \E op1 \in Ops, op2 \in Ops, n2 \in Names :
                 inflight \in
                     {[start |-> services,
                       proc |-> <<Invocation("svc", "Service", svc, "foo", op1), second>>] :
                         second \in {Invocation("svc", "Service", svc, "foo", op2),
                                     Invocation("svc2", "Service",
                                                NewService(Definition(n2, sel)), n2, op2),
                                     Invocation("ex", "ExistingService", ex, ex.Name, op2)}}
    /\ children \in LifecycleChildLists
    /\ nextUid = 2
    /\ last = NoCall
    /\ run = NewRun(services, "foo")

NextConc ==
    \/ \E p \in Procs : Fetch(p)
    \/ \E p \in Procs : NextCall(p)
    \/ \E p \in Procs : Provision(p)
    \/ \E p \in Procs : ExistingCreate(p)
    \/ \E p \in Procs : Remove(p)

SpecConc == InitConc /\ [][NextConc]_vars

-----------------------------------------------------------------------------
\* Claims about concurrent invocations (specification SpecConc).

BothReturned == \A p \in Procs : inflight.proc[p].pc = "done"

IssuedBy(p, op) ==
    \E i \in 1..Len(inflight.proc[p].issued) : inflight.proc[p].issued[i].op = op

\* Two Creates of managed Services of one name, begun with the service
\* absent, that both got not-found from their get and both went on to the
\* create call.
BothCreatedAfterAbsent ==
    /\ inflight.proc # <<>>
    /\ BothReturned
    /\ ~Found(inflight.start, inflight.proc[1].name)
    /\ inflight.proc[1].name = inflight.proc[2].name
    /\ \A p \in Procs :
           /\ inflight.proc[p].op = "Create"
           /\ inflight.proc[p].variant = "Service"
           /\ inflight.proc[p].issued[1] = Call("Get", "services", inflight.proc[p].name, NotFound)
           /\ IssuedBy(p, "Create")

\* C14: when two Creates for one name interleave so that both see the service
\* absent and both issue the create, one of them returns nil and the other
\* the transport's error for the duplicate, and the cluster holds one object
\* of the name.
C14_CreateRace ==
    BothCreatedAfterAbsent
        => /\ {inflight.proc[1].err, inflight.proc[2].err} = {Nil, AlreadyExists}
           /\ Cardinality({o \in services : o.name = inflight.proc[1].name}) = 1

\* C14 witness: that interleaving, of two Creates on the same instance.
C14_Witness ==
    /\ BothCreatedAfterAbsent
    /\ inflight.proc[1].inst = inflight.proc[2].inst

\* What one invocation run from call to return does to a cluster: its
\* result, the services after it and the next identity.
Outcome(q, svcs, uid, order, flags) ==
    IF q.op = "Delete"
    THEN LET r == ClientDelete(svcs, q.name, FALSE)
         IN  [verdict |-> "", err |-> deleteResult(r.err), services |-> r.services, uid |-> uid]
    ELSE IF q.op = "Create" /\ q.variant = "ExistingService"
    THEN [verdict |-> "", err |-> createExistingResource(q.s), services |-> svcs, uid |-> uid]
    ELSE LET st == serviceStatus(svcs, children, q.name, q.s.APIClient, order, flags, 0)
         IN  IF q.op = "Status"
             THEN [verdict |-> st.verdict, err |-> st.err, services |-> svcs, uid |-> uid]
             ELSE LET r == ServiceCreate(svcs, q.s, uid, st, FALSE)
                  IN  [verdict |-> "", err |-> r.err, services |-> r.services,
                       uid |-> IF r.returned # NoObj THEN uid + 1 ELSE uid]

Outcomes(q, svcs, uid) ==
    {Outcome(q, svcs, uid, order, flags) :
        order \in Orders(SelectorOf(svcs, q.name)), flags \in Flags(SelectorOf(svcs, q.name))}

\* The results of a, then b, and the services left, when a returns before b
\* is called.
InSequence(a, b) ==
    UNION {{[first |-> <<x.verdict, x.err>>, second |-> <<y.verdict, y.err>>,
             services |-> y.services] : y \in Outcomes(b, x.services, x.uid)} :
              x \in Outcomes(a, inflight.start, 2)}

Observed(a, b) ==
    [first |-> <<a.verdict, a.err>>, second |-> <<b.verdict, b.err>>, services |-> services]

\* C15: two invocations on distinct instances, whatever the interleaving of
\* their round-trips: their results and the services left are those of the
\* two run one after the other, in one order or the other.
C15_DistinctInstancesSerializable ==
    (/\ inflight.proc # <<>>
     /\ BothReturned
     /\ inflight.proc[1].inst # inflight.proc[2].inst)
        => \/ Observed(inflight.proc[1], inflight.proc[2])
                  \in InSequence(inflight.proc[1], inflight.proc[2])
           \/ Observed(inflight.proc[2], inflight.proc[1])
                  \in InSequence(inflight.proc[2], inflight.proc[1])

====
